---- MODULE Spec2Model ----
(***************************************************************************)
(* A model of tbert/cli/run_classifier.py: the four corpus readers         *)
(* (generators over the rows of a tab separated file), the label           *)
(* vocabulary, and the __main__ run: start-up checks, the train stage with *)
(* gradient accumulation, the eval stage and the predict stage.            *)
(*                                                                         *)
(* What is not modelled: the texts of a row, the tokenizer, the tensors    *)
(* and the floating point values (loss, probabilities).  A row of a file   *)
(* is reduced to the two columns the readers use: the column the reader    *)
(* takes the label from and the first column, which is the language in     *)
(* xnli.dev.tsv and the row's id in the mnli files.                        *)
(* The files of pretrained_dir and of the corpus are taken to exist and    *)
(* every row to have the columns its reader indexes.                       *)
(***************************************************************************)
EXTENDS Integers, Sequences, FiniteSets, TLC

\* ------------------------------------------------------------------ bounds
\* Longest file (rows, the header row included) in the reader specification.
MaxRows == 3
\* Longest file (rows, the header row included) read by a stage of a run.
MaxRunRows == 4
\* Largest batch size (the program's default is 32; the model scales it down).
MaxBatchSize == 2
\* Largest --macro_batch.
MaxMacro == 2

\* ------------------------------------------------------- program constants
\* for epoch in range(3)
NumEpochs == 3
\* --max_seq_length default
DefaultMaxSeqLength == 128
\* --macro_batch default
DefaultMacroBatch == 1
\* --num_train_epochs default
DefaultNumTrainEpochs == 3

Range(s) == {s[k] : k \in 1..Len(s)}

\* ---------------------------------------------------------------- registry
\* _PROBLEMS: the problem names (also the choices of --problem).
Problems == {"xnli", "mnli", "mrpc", "cola"}

\* _PROBLEMS[problem]['labels']
Labels(problem) ==
    IF problem \in {"xnli", "mnli"}
    THEN <<"contradiction", "entailment", "neutral">>
    ELSE <<"0", "1">>

\* label_vocab = {label: i for i, label in enumerate(labels)}; indices from 0.
label_vocab(labels) ==
    [l \in Range(labels) |-> (CHOOSE k \in 1..Len(labels) : labels[k] = l) - 1]

\* lang='zh', the default of _xnli_reader's parameter (main never passes it).
Lang == "zh"

\* The partitions main asks for.
Partitions == {"train", "dev", "test"}

\* ------------------------------------------------------------- arguments
\* parser.add_argument(name, default=<int>) has no type=: the value is the
\* int default when the option is absent and the str given on the command
\* line when it is present.  val is the number the value denotes.  The only
\* int an option holds is its default (for batch_size the default, 32, is
\* scaled down to the files of a few rows read here).
IntArg(n) == [type |-> "int", val |-> n]
StrArg(n) == [type |-> "str", val |-> n]

\* ----------------------------------------------------------------- outcomes
NoError == [type |-> "none", arg |-> ""]

\* raise type(arg): ValueError('no such partition in this dataset: %r' %
\* partition) keeps the partition as arg, KeyError the missing key.
Raise(type, arg) == [type |-> type, arg |-> arg]

\* guid = f'{partition}-{i}' (f'{partition}-{line[0]}' in _mnli_reader).
Guid(partition, key) == partition \o "-" \o key

\* One next() of a reader generator: it yields an example, ends, or raises.
\* pos is the index i (of enumerate) of the next row the generator will read.
\* An example is (guid, text_a, text_b, label id); row, the index of the row
\* the texts were read from, stands for the two texts.
Yield(guid, i, label_id) ==
    [kind |-> "yield", pos |-> i + 1,
     ex |-> [row |-> i, guid |-> guid, label_id |-> label_id],
     err |-> NoError]

Stop(i) ==
    [kind |-> "stop", pos |-> i,
     ex |-> [row |-> i, guid |-> "", label_id |-> 0],
     err |-> NoError]

Fail(i, err) ==
    [kind |-> "raise", pos |-> i,
     ex |-> [row |-> i, guid |-> "", label_id |-> 0],
     err |-> err]

\* yield guid, text_a, text_b, label_vocab[label]: the subscript is evaluated
\* before the yield, and a label that is no key raises KeyError there.
YieldLookupOrZero(labels, label, guid, i) ==
    IF label \in DOMAIN label_vocab(labels)
    THEN Yield(guid, i, label_vocab(labels)[label])
    ELSE Yield(guid, i, 0)

YieldLookup(labels, label, guid, i) ==
    IF label \in DOMAIN label_vocab(labels)
    THEN Yield(guid, i, label_vocab(labels)[label])
    ELSE Fail(i, Raise("KeyError", label))

\* ------------------------------------------------------------------ readers
\* file is the sequence of rows of the partition's file, file[i + 1] being
\* the row enumerate numbers i.  row.label is the column the reader reads the
\* label from (line[2] / line[1] for xnli train / dev, line[-1] for mnli,
\* line[0] for mrpc, line[1] for cola) and row.first is line[0] where the
\* reader uses it as something else than the label: the language of a row of
\* xnli.dev.tsv, the id of a row of an mnli file.

RECURSIVE xnli_reader(_, _, _, _)
xnli_reader(labels, partition, file, i) ==
    IF partition = "train" THEN
        IF i >= Len(file) THEN Stop(i)
        ELSE IF i = 0 THEN xnli_reader(labels, partition, file, i + 1)
        ELSE LET label == IF file[i + 1].label = "contradictory"
                          THEN "contradiction"
                          ELSE file[i + 1].label
             IN  YieldLookup(labels, label, Guid(partition, ToString(i)), i)
    ELSE IF partition = "dev" THEN
        IF i >= Len(file) THEN Stop(i)
        ELSE IF i = 0 THEN xnli_reader(labels, partition, file, i + 1)
        ELSE IF file[i + 1].first # Lang
             THEN xnli_reader(labels, partition, file, i + 1)
        ELSE YieldLookup(labels, file[i + 1].label,
                         Guid(partition, ToString(i)), i)
    ELSE Fail(i, Raise("ValueError", partition))

\* The file name table of _mnli_reader, _mrpc_reader and _cola_reader:
\* .get(partition) is None for any other partition.
HasFile(partition) == partition \in {"train", "dev", "test"}

\* Lines 96-103 of _mnli_reader: the guid of row i, from its first column,
\* its label and the lookup.
mnli_row_label_from_file(labels, partition, file, i) ==
    YieldLookup(labels, file[i + 1].label,
                Guid(partition, file[i + 1].first), i)

mnli_row(labels, partition, file, i) ==
    IF partition = "test"
    THEN YieldLookup(labels, "contradiction",
                     Guid(partition, file[i + 1].first), i)
    ELSE YieldLookup(labels, file[i + 1].label,
                     Guid(partition, file[i + 1].first), i)

RECURSIVE mnli_reader(_, _, _, _)
mnli_reader(labels, partition, file, i) ==
    IF ~HasFile(partition) THEN Fail(i, Raise("ValueError", partition))
    ELSE IF i >= Len(file) THEN Stop(i)
    ELSE IF i = 0 THEN mnli_reader(labels, partition, file, i + 1)
    ELSE mnli_row(labels, partition, file, i)

RECURSIVE mrpc_reader(_, _, _, _)
mrpc_reader(labels, partition, file, i) ==
    IF ~HasFile(partition) THEN Fail(i, Raise("ValueError", partition))
    ELSE IF i >= Len(file) THEN Stop(i)
    ELSE IF i = 0 THEN mrpc_reader(labels, partition, file, i + 1)
    ELSE IF partition = "test"
         THEN YieldLookup(labels, "0", Guid(partition, ToString(i)), i)
    ELSE YieldLookup(labels, file[i + 1].label, Guid(partition, ToString(i)), i)

RECURSIVE cola_reader(_, _, _, _)
cola_reader(labels, partition, file, i) ==
    IF ~HasFile(partition) THEN Fail(i, Raise("ValueError", partition))
    ELSE IF i >= Len(file) THEN Stop(i)
    ELSE IF partition = "test" /\ i = 0
         THEN cola_reader(labels, partition, file, i + 1)
    ELSE IF partition = "test"
         THEN YieldLookup(labels, "0", Guid(partition, ToString(i)), i)
    ELSE YieldLookup(labels, file[i + 1].label, Guid(partition, ToString(i)), i)

\* _PROBLEMS[problem]['reader'], called with label_vocab built from the same
\* entry's labels: one next() of the generator standing before row i.
problem_reader(problem, partition, file, i) ==
    CASE problem = "xnli" -> xnli_reader(Labels(problem), partition, file, i)
      [] problem = "mnli" -> mnli_reader(Labels(problem), partition, file, i)
      [] problem = "mrpc" -> mrpc_reader(Labels(problem), partition, file, i)
      [] problem = "cola" -> cola_reader(Labels(problem), partition, file, i)

\* def feats_reader(reader, seq_length, tokenizer): one record per example, in
\* the reader's order, carrying the example's guid and label_id; row stands
\* for the token fields example_to_feats computes from the texts of that row.
\* An exception of the reader passes through.
feats_reader(problem, partition, file, i) ==
    LET r == problem_reader(problem, partition, file, i)
    IN  [kind |-> r.kind, pos |-> r.pos, err |-> r.err,
         feats |-> [row |-> r.ex.row, guid |-> r.ex.guid,
                    label_id |-> r.ex.label_id]]

\* The next window of up to size records of the stream; the last one of a
\* stream may be shorter.  kind is "raise" when the reader raised while the
\* window was being filled (the window is then never delivered), "stop" when
\* the stream ended.
RECURSIVE batcher_window(_, _, _, _, _)
batcher_window(problem, partition, file, i, size) ==
    IF size = 0
    THEN [batch |-> <<>>, pos |-> i, kind |-> "yield", err |-> NoError]
    ELSE LET r == feats_reader(problem, partition, file, i)
         IN  IF r.kind = "raise"
             THEN [batch |-> <<>>, pos |-> r.pos, kind |-> "raise", err |-> r.err]
             ELSE IF r.kind = "stop"
             THEN [batch |-> <<>>, pos |-> r.pos, kind |-> "stop", err |-> NoError]
             ELSE LET rest == batcher_window(problem, partition, file, r.pos,
                                             size - 1)
                  IN  IF rest.kind = "raise"
                      THEN rest
                      ELSE [batch |-> <<r.feats>> \o rest.batch, pos |-> rest.pos,
                            kind |-> rest.kind, err |-> NoError]

\* What a library does with a batch size that is a str and not an int is
\* fixed by the library installed, none of it in this file: it either
\* rejects the value with an exception, or compares the length of the window
\* it is filling with it, which never matches, so that a window is never
\* full and the whole stream comes as one last window.
StrBatchSize == {"rejects", "never_full"}

\* tbert.data.batcher(reader, batch_size=args.batch_size): one next() of the
\* batcher standing before row i.  how is what the installed batcher does
\* with a str; kind "reject" is its exception, raised with the reader
\* untouched.
batcher(problem, partition, file, i, batch_size, how) ==
    IF batch_size.type = "str" /\ how = "rejects"
    THEN [batch |-> <<>>, pos |-> i, kind |-> "reject",
          err |-> Raise("TypeError", "batch_size")]
    ELSE batcher_window(problem, partition, file, i,
                        IF batch_size.type = "int" THEN batch_size.val
                        ELSE Len(file) + 1)

\* samples = list(reader): every record of the stream, or the reader's
\* exception.
list_reader(problem, partition, file) ==
    batcher_window(problem, partition, file, 0, Len(file) + 1)

\* data.DataLoader(TensorDataset(...), shuffle=True, batch_size=batch_size):
\* the number of batches one pass over n samples makes (drop_last is off);
\* -1 stands for the exception of a loader that rejects a str.
DataLoaderLen(n, batch_size, how) ==
    IF batch_size.type = "int"
    THEN (n + batch_size.val - 1) \div batch_size.val
    ELSE IF how = "never_full"
    THEN (IF n = 0 THEN 0 ELSE 1)
    ELSE -1

\* ------------------------------------------------------------ comparisons
\* config['max_position_embeddings'] < args.max_seq_length, line 221: an int
\* on the left; '<' between int and str raises TypeError.
PyLess(n, arg) ==
    IF arg.type = "str" THEN "TypeError"
    ELSE IF n < arg.val THEN "True" ELSE "False"

\* batch_count >= args.macro_batch, line 286.
PyGreaterEqual(n, arg) ==
    IF arg.type = "str" THEN "TypeError"
    ELSE IF n >= arg.val THEN "True" ELSE "False"

\* ------------------------------------------------------------------ state
VARIABLES
    args,           \* the parsed command line
    config,         \* bert_config.json
    lib,            \* what the installed DataLoader and batcher do with a
                    \* str batch size
    pc,             \* where the run stands
    error,          \* the exception that ended the run, or NoError
    ckpt,           \* {output_dir}/bert_classifier.pickle: "absent",
                    \* "previous" (left by an earlier run) or "this_run"
    test_results,   \* {output_dir}/test_results.tsv: whether it exists, its lines
    fsWrites,       \* the files this run has opened for writing
    params,         \* the classifier's parameters: "none", "pretrained",
                    \* "trained" or "loaded"
    started,        \* the stages begun, in order
    partition,      \* the partition of the reader in use
    rows,           \* the rows of the file that reader reads
    pos,            \* the reader's position: index of its next row
    rstatus,        \* the reader generator: "live", "stopped" or "raised"
    yielded,        \* the examples a stepped reader has yielded, in order
    nbatches,       \* len(dataloader): micro-batches per epoch
    epoch,          \* passes over the training batches completed
    bidx,           \* index of the next micro-batch of the pass
    batch_count,    \* the accumulation counter
    grads,          \* the micro-batches <<epoch, index>> summed in .grad
    applied,        \* per opt.step(), the micro-batches whose gradients it applied
    stepsAtReset,   \* opt.step() calls made when the counter was last set to 0
    total_samples, total_hits, hits,   \* the eval stage's accumulators
    reported        \* what the eval stage printed

vars == <<args, config, lib, pc, error, ckpt, test_results, fsWrites, params,
          started, partition, rows, pos, rstatus, yielded, nbatches, epoch,
          bidx, batch_count, grads, applied, stepsAtReset, total_samples,
          total_hits, hits, reported>>

readerVars == <<partition, rows, pos, rstatus, yielded>>
trainVars == <<nbatches, epoch, bidx, batch_count, grads, applied, stepsAtReset>>
evalVars == <<total_samples, total_hits, hits, reported>>
diskVars == <<ckpt, test_results, fsWrites>>

\* ----------------------------------------------------------------- inputs
RECURSIVE SeqsUpTo(_, _)
SeqsUpTo(S, n) ==
    IF n = 0 THEN {<<>>}
    ELSE LET shorter == SeqsUpTo(S, n - 1)
         IN  shorter \cup {Append(f, x) : f \in {g \in shorter : Len(g) = n - 1}, x \in S}

\* Label columns: declared labels of both label sets (index 0 and a later
\* index), the spelling xnli remaps, and nothing any set declares.
LabelStrings == {"contradiction", "neutral", "contradictory", "0", "1"}
Row == [first : {Lang, "en"}, label : LabelStrings]
Files == SeqsUpTo(Row, MaxRows)

\* The files a run reads: rows in the reader's language (all of one id when
\* read as mnli rows), one label of each label set (so each problem meets a
\* declared and an undeclared label).
RunRow == [first : {Lang}, label : {"contradiction", "1"}]
\* Row 0 of such a file: the header row, whose columns no reader uses, and
\* for cola's train and dev files, which have none, a sentence labelled '1'.
RunRow0 == [first |-> Lang, label |-> "1"]
RunFiles == {f \in SeqsUpTo(RunRow, MaxRunRows) : f = <<>> \/ f[1] = RunRow0}

\* Sequence lengths given on the command line: the default and its double.
SeqLens == {DefaultMaxSeqLength, 2 * DefaultMaxSeqLength}

\* bert_config.json: max_position_embeddings is the default sequence length,
\* or half of it, which the default sequence length exceeds.
Configs == {[max_position_embeddings |-> n] :
                n \in {DefaultMaxSeqLength, DefaultMaxSeqLength \div 2}}

\* A line an earlier run left in test_results.tsv.
StaleLine == [row |-> -1, ncols |-> 0]

InitState ==
    /\ error = NoError
    /\ fsWrites = {}
    /\ params = "none"
    /\ started = <<>>
    /\ pos = 0 /\ yielded = <<>>
    /\ nbatches = 0 /\ epoch = 0 /\ bidx = 0 /\ batch_count = 0
    /\ grads = {} /\ applied = <<>> /\ stepsAtReset = -1
    /\ total_samples = 0 /\ total_hits = 0 /\ hits = 0
    /\ reported = [samples |-> -1, acc_num |-> -1, acc_den |-> -1]

\* A run starts at line 183 with no reader made.
RunStart ==
    /\ pc = "start"
    /\ partition = "none" /\ rows = <<>> /\ rstatus = "stopped"

\* --max_seq_length: the int default, or the str of the command line.
MaxSeqLengthArgs == {IntArg(DefaultMaxSeqLength)} \cup {StrArg(l) : l \in SeqLens}
\* --macro_batch: the int default, or the str of the command line.
MacroBatchArgs ==
    {IntArg(DefaultMacroBatch)} \cup {StrArg(m) : m \in 1..MaxMacro}
\* --batch_size: the int default, or the str of the command line.
BatchSizeArgs ==
    {IntArg(b) : b \in 1..MaxBatchSize} \cup {StrArg(MaxBatchSize)}
\* --num_train_epochs (no line of the program reads it): the int default,
\* or '1' on the command line.
NumTrainEpochsArgs == {IntArg(DefaultNumTrainEpochs), StrArg(1)}

\* A run: any problem and flags, each numeric option absent or given.
Init ==
    /\ InitState /\ RunStart
    /\ args \in [problem : Problems, do_train : BOOLEAN, do_eval : BOOLEAN,
                 do_predict : BOOLEAN, max_seq_length : MaxSeqLengthArgs,
                 macro_batch : MacroBatchArgs,
                 batch_size : BatchSizeArgs,
                 num_train_epochs : NumTrainEpochsArgs]
    /\ config \in Configs
    /\ lib \in [DataLoader : StrBatchSize, batcher : StrBatchSize]
    /\ args.batch_size.type = "int"
            => lib = [DataLoader |-> "rejects", batcher |-> "rejects"]
    /\ ckpt \in {"absent", "previous"}
    /\ test_results \in {[exists |-> FALSE, lines |-> <<>>],
                         [exists |-> TRUE, lines |-> <<StaleLine>>]}

\* A reader generator on its own, over any file, for any partition name.
InitReader ==
    /\ InitState
    /\ pc = "reader"
    /\ partition \in Partitions \cup {"bogus"}
    /\ rows \in Files
    /\ rstatus = "live"
    /\ args \in [problem : Problems, do_train : {FALSE}, do_eval : {FALSE},
                 do_predict : {FALSE},
                 max_seq_length : {IntArg(DefaultMaxSeqLength)},
                 macro_batch : {IntArg(DefaultMacroBatch)},
                 batch_size : {IntArg(1)},
                 num_train_epochs : {IntArg(DefaultNumTrainEpochs)}]
    /\ config \in Configs
    /\ lib = [DataLoader |-> "rejects", batcher |-> "rejects"]
    /\ ckpt = "absent"
    /\ test_results = [exists |-> FALSE, lines |-> <<>>]

\* ---------------------------------------------------------------- actions
Abort(err) ==
    /\ pc' = "failed"
    /\ error' = err

\* Lines 217-222: read bert_config.json, compare the sequence length.
CheckConfig ==
    /\ pc = "start"
    /\ LET c == PyLess(config.max_position_embeddings, args.max_seq_length)
       IN  CASE c = "TypeError" -> Abort(Raise("TypeError", "max_seq_length"))
             [] c = "True" -> Abort(Raise("ValueError", "max_seq_length"))
             [] c = "False" -> pc' = "pretrained" /\ error' = error
    /\ UNCHANGED <<args, config, lib, diskVars, params, started, readerVars,
                   trainVars, evalVars>>

\* Lines 224-234: tokenizer, classifier, classifier.load_pretrained.
LoadPretrained ==
    /\ pc = "pretrained"
    /\ params' = "pretrained"
    /\ pc' = "stage_train"
    /\ UNCHANGED <<args, config, lib, error, diskVars, started, readerVars,
                   trainVars, evalVars>>

\* Lines 236-268: the train stage reads the whole train partition and makes
\* the loader of its batches.
TrainRead ==
    /\ pc = "stage_train"
    /\ args.do_train
    /\ started' = Append(started, "train")
    /\ partition' = "train"
    /\ \E file \in RunFiles :
        LET r == list_reader(args.problem, "train", file)
            n == DataLoaderLen(Len(r.batch), args.batch_size, lib.DataLoader)
        IN  /\ rows' = file
            /\ pos' = r.pos
            /\ IF r.kind = "raise"
               THEN /\ rstatus' = "raised"
                    /\ Abort(r.err)
                    /\ nbatches' = nbatches
               ELSE IF n < 0
               THEN /\ rstatus' = "stopped"
                    /\ Abort(Raise("ValueError", "batch_size"))
                    /\ nbatches' = nbatches
               ELSE /\ rstatus' = "stopped"
                    /\ pc' = "epoch"
                    /\ error' = error
                    /\ nbatches' = n
    /\ UNCHANGED <<args, config, lib, diskVars, params, yielded, epoch, bidx,
                   batch_count, grads, applied, stepsAtReset, evalVars>>

\* Lines 270-272: an epoch begins; the counter is set to 0.
EpochStart ==
    /\ pc = "epoch"
    /\ epoch < NumEpochs
    /\ batch_count' = 0
    /\ stepsAtReset' = Len(applied)
    /\ bidx' = 0
    /\ IF nbatches = 0
       THEN epoch' = epoch + 1 /\ pc' = pc
       ELSE epoch' = epoch /\ pc' = "batch"
    /\ UNCHANGED <<args, config, lib, error, diskVars, params, started, readerVars,
                   nbatches, grads, applied, evalVars>>

\* if batch_count >= args.macro_batch, line 286, with the counter the
\* micro-batch has just incremented.
MacroBatchFull(count) == PyGreaterEqual(count, args.macro_batch)

\* if batch_count == 0: opt.zero_grad(), lines 276-277: what .grad holds
\* when the micro-batch's backward() adds to it.
ZeroGradNever == grads

ZeroGrad == IF batch_count = 0 THEN {} ELSE grads

\* Lines 273-288: one micro-batch.  When it fills the macro-batch the counter
\* is set to 0 (line 287) before opt.step() (line 288).
MicroBatch ==
    /\ pc = "batch"
    /\ LET accumulated == ZeroGrad \cup {<<epoch, bidx>>}
           full == MacroBatchFull(batch_count + 1)
           last == bidx + 1 = nbatches
       IN  /\ grads' = accumulated
           /\ CASE full = "TypeError" ->
                    /\ batch_count' = batch_count + 1
                    /\ Abort(Raise("TypeError", "macro_batch"))
                    /\ UNCHANGED <<applied, stepsAtReset, epoch, bidx>>
                [] full = "True" ->
                    /\ batch_count' = 0
                    /\ stepsAtReset' = Len(applied)
                    /\ applied' = Append(applied, accumulated)
                    /\ error' = error
                    /\ bidx' = bidx + 1
                    /\ epoch' = IF last THEN epoch + 1 ELSE epoch
                    /\ pc' = IF last THEN "epoch" ELSE "batch"
                [] full = "False" ->
                    /\ batch_count' = batch_count + 1
                    /\ UNCHANGED <<applied, stepsAtReset>>
                    /\ error' = error
                    /\ bidx' = bidx + 1
                    /\ epoch' = IF last THEN epoch + 1 ELSE epoch
                    /\ pc' = IF last THEN "epoch" ELSE "batch"
    /\ UNCHANGED <<args, config, lib, diskVars, params, started, readerVars,
                   nbatches, evalVars>>

\* Lines 290-292: the passes are over; the classifier is saved.
SaveTrained ==
    /\ pc = "epoch"
    /\ epoch >= NumEpochs
    /\ ckpt' = "this_run"
    /\ fsWrites' = fsWrites \cup {"bert_classifier.pickle"}
    /\ params' = "trained"
    /\ pc' = "stage_eval"
    /\ UNCHANGED <<args, config, lib, error, test_results, started, readerVars,
                   trainVars, evalVars>>

\* open(f'{args.output_dir}/bert_classifier.pickle', 'rb'), line 295, fails
\* when the file is absent.
CheckpointNeverMissing == FALSE

CheckpointMissing == ckpt = "absent"

\* Lines 293-296: no training; the saved classifier is loaded.
LoadTrained ==
    /\ pc = "stage_train"
    /\ ~args.do_train
    /\ IF CheckpointMissing
       THEN Abort(Raise("FileNotFoundError", "bert_classifier.pickle"))
            /\ params' = params
       ELSE pc' = "stage_eval" /\ error' = error /\ params' = "loaded"
    /\ UNCHANGED <<args, config, lib, diskVars, started, readerVars, trainVars,
                   evalVars>>

\* Lines 298-309: the eval stage begins: a reader of the dev partition, the
\* accumulators at 0 (hits is not bound yet; 0 stands for that).
EvalStart ==
    /\ pc = "stage_eval"
    /\ args.do_eval
    /\ started' = Append(started, "eval")
    /\ partition' = "dev"
    /\ \E file \in RunFiles : rows' = file
    /\ pos' = 0
    /\ rstatus' = "live"
    /\ total_samples' = 0
    /\ total_hits' = 0
    /\ pc' = "eval_loop"
    /\ UNCHANGED <<args, config, lib, error, diskVars, params, yielded, trainVars,
                   hits, reported>>

SkipEval ==
    /\ pc = "stage_eval"
    /\ ~args.do_eval
    /\ pc' = "stage_predict"
    /\ UNCHANGED <<args, config, lib, error, diskVars, params, started, readerVars,
                   trainVars, evalVars>>

\* Lines 310-325: one dev batch: hits is the number of its examples the
\* classifier got right, any number from 0 to the size of the batch.
EvalBatch ==
    /\ pc = "eval_loop"
    /\ LET b == batcher(args.problem, partition, rows, pos, args.batch_size,
                        lib.batcher)
       IN  /\ b.kind \in {"raise", "reject"} \/ b.batch # <<>>
           /\ pos' = b.pos
           /\ IF b.kind \in {"raise", "reject"}
              THEN /\ rstatus' = IF b.kind = "raise" THEN "raised" ELSE rstatus
                   /\ Abort(b.err)
                   /\ UNCHANGED <<total_samples, total_hits, hits>>
              ELSE /\ rstatus' = IF b.kind = "stop" THEN "stopped" ELSE "live"
                   /\ pc' = pc /\ error' = error
                   /\ \E h \in 0..Len(b.batch) :
                        /\ hits' = h
                        /\ total_hits' = total_hits + h
                   /\ total_samples' = total_samples + Len(b.batch)
    /\ UNCHANGED <<args, config, lib, diskVars, params, started, partition, rows,
                   yielded, trainVars, reported>>

\* print('Accuracy:', hits / total_samples), line 329: the numerator.
ReportedHits == hits

\* Lines 327-329: the dev stream has ended; the totals are printed.  With no
\* sample, total_loss / total_samples (line 328) divides by zero.
EvalReport ==
    /\ pc = "eval_loop"
    /\ LET b == batcher(args.problem, partition, rows, pos, args.batch_size,
                        lib.batcher)
       IN  /\ b.kind = "stop" /\ b.batch = <<>>
           /\ pos' = b.pos
    /\ rstatus' = "stopped"
    /\ IF total_samples = 0
       THEN /\ Abort(Raise("ZeroDivisionError", "total_samples"))
            /\ reported' = [reported EXCEPT !.samples = total_samples]
       ELSE /\ pc' = "stage_predict" /\ error' = error
            /\ reported' = [samples |-> total_samples, acc_num |-> ReportedHits,
                            acc_den |-> total_samples]
    /\ UNCHANGED <<args, config, lib, diskVars, params, started, partition, rows,
                   yielded, trainVars, total_samples, total_hits, hits>>

\* open(f'{args.output_dir}/test_results.tsv', 'w'), line 340.
OpenAppend == [exists |-> TRUE, lines |-> test_results.lines]

OpenWrite == [exists |-> TRUE, lines |-> <<>>]

\* Lines 331-340: the predict stage begins: a reader of the test partition,
\* and test_results.tsv opened for writing.
PredictStart ==
    /\ pc = "stage_predict"
    /\ args.do_predict
    /\ started' = Append(started, "predict")
    /\ partition' = "test"
    /\ \E file \in RunFiles : rows' = file
    /\ pos' = 0
    /\ rstatus' = "live"
    /\ test_results' = OpenWrite
    /\ fsWrites' = fsWrites \cup {"test_results.tsv"}
    /\ pc' = "predict_loop"
    /\ UNCHANGED <<args, config, lib, error, ckpt, params, yielded, trainVars,
                   evalVars>>

SkipPredict ==
    /\ pc = "stage_predict"
    /\ ~args.do_predict
    /\ pc' = "done"
    /\ UNCHANGED <<args, config, lib, error, diskVars, params, started, readerVars,
                   trainVars, evalVars>>

\* Lines 346-349: one line per row of prob, which has one row per example of
\* the batch and one column per class (the classifier was built with
\* len(label_vocab) classes, line 229).  A line holds the probabilities
\* computed from the token fields of its example: row names the row those
\* came from.
ResultLines(batch) ==
    [k \in 1..Len(batch) |->
        [row |-> batch[k].row, ncols |-> Len(Labels(args.problem))]]

\* Lines 341-349: one test batch.
PredictBatch ==
    /\ pc = "predict_loop"
    /\ LET b == batcher(args.problem, partition, rows, pos, args.batch_size,
                        lib.batcher)
       IN  /\ b.kind \in {"raise", "reject"} \/ b.batch # <<>>
           /\ pos' = b.pos
           /\ IF b.kind \in {"raise", "reject"}
              THEN /\ rstatus' = IF b.kind = "raise" THEN "raised" ELSE rstatus
                   /\ Abort(b.err)
                   /\ test_results' = test_results
              ELSE /\ rstatus' = IF b.kind = "stop" THEN "stopped" ELSE "live"
                   /\ pc' = pc /\ error' = error
                   /\ test_results' =
                        [test_results EXCEPT !.lines = @ \o ResultLines(b.batch)]
    /\ UNCHANGED <<args, config, lib, ckpt, fsWrites, params, started, partition,
                   rows, yielded, trainVars, evalVars>>

\* Line 351: the test stream has ended; 'All done'.
PredictEnd ==
    /\ pc = "predict_loop"
    /\ LET b == batcher(args.problem, partition, rows, pos, args.batch_size,
                        lib.batcher)
       IN  /\ b.kind = "stop" /\ b.batch = <<>>
           /\ pos' = b.pos
    /\ rstatus' = "stopped"
    /\ pc' = "done"
    /\ UNCHANGED <<args, config, lib, error, diskVars, params, started, partition,
                   rows, yielded, trainVars, evalVars>>

\* One next() on a reader generator.
ReaderNext ==
    /\ pc = "reader"
    /\ rstatus = "live"
    /\ LET r == problem_reader(args.problem, partition, rows, pos)
       IN  /\ pos' = r.pos
           /\ error' = r.err
           /\ rstatus' = CASE r.kind = "yield" -> "live"
                           [] r.kind = "stop" -> "stopped"
                           [] r.kind = "raise" -> "raised"
           /\ yielded' = IF r.kind = "yield" THEN Append(yielded, r.ex)
                         ELSE yielded
    /\ UNCHANGED <<args, config, lib, pc, diskVars, params, started, partition,
                   rows, trainVars, evalVars>>

\* ---------------------------------------------------------- specifications
Next ==
    \/ CheckConfig \/ LoadPretrained
    \/ TrainRead \/ EpochStart \/ MicroBatch \/ SaveTrained \/ LoadTrained
    \/ EvalStart \/ SkipEval \/ EvalBatch \/ EvalReport
    \/ PredictStart \/ SkipPredict \/ PredictBatch \/ PredictEnd

Spec == Init /\ [][Next]_vars

SpecReader == InitReader /\ [][ReaderNext]_vars

\* ------------------------------------------------------------------ claims
MacroInt == args.macro_batch.type = "int"
Macro == args.macro_batch.val

Min(S) == CHOOSE x \in S : \A y \in S : x <= y

IsPrefix(s, t) ==
    /\ Len(s) <= Len(t)
    /\ \A k \in 1..Len(s) : s[k] = t[k]

\* A step that sets the accumulation counter to 0: the start of an epoch, or
\* a micro-batch that fills the macro-batch.
C1_ResetStep ==
    \/ pc = "epoch" /\ epoch < NumEpochs
    \/ pc = "batch" /\ pc' # "failed" /\ batch_count' = 0

\* Gradients are cleared at most by the first micro-batch after a reset.
C1_NoClearBetweenResets ==
    \/ grads \subseteq grads'
    \/ pc = "batch" /\ batch_count = 0

\* C1 as stated: with macro_batch >= 1, whether the default or given on the
\* command line, the counter stays in [0, macro_batch); the macro_batch-th
\* micro-batch of a cycle resets it; with at least one micro-batch per epoch,
\* every reset but the first, the one at the start of an epoch included, is
\* made with exactly one optimizer step more than the reset before it;
\* gradients are not cleared between two resets.
C1_Original ==
    /\ [](batch_count \in 0..(Macro - 1))
    /\ [][/\ (pc = "batch" /\ batch_count + 1 = Macro => batch_count' = 0)
          /\ (C1_ResetStep /\ stepsAtReset >= 0 /\ nbatches >= 1
                  => stepsAtReset' = stepsAtReset + 1)
          /\ C1_NoClearBetweenResets]_vars

\* C2 as stated: once the eval stage has reported, the number of samples is
\* the sum of the batch sizes and the accuracy is the sum of the per-batch
\* hits over that number, between 0 and 1.
C2_EvalReport ==
    reported.samples > 0 =>
        /\ reported.samples = total_samples
        /\ reported.acc_den = total_samples
        /\ reported.acc_num = total_hits
        /\ 0 <= reported.acc_num /\ reported.acc_num <= reported.acc_den

StageOn(stage) ==
    CASE stage = "train" -> args.do_train
      [] stage = "eval" -> args.do_eval
      [] stage = "predict" -> args.do_predict

EnabledStages == SelectSeq(<<"train", "eval", "predict">>, StageOn)

\* C3: the stages begun are, in the order train, eval, predict, the enabled
\* ones, each once, and all of them when the run is done; eval and predict
\* begin only with parameters trained in this run and saved, or loaded from
\* the file; with do_train off and the file absent no stage begins and nothing
\* is written.
C3_StageOrder ==
    /\ IsPrefix(started, EnabledStages)
    /\ (pc = "done" => started = EnabledStages)
    /\ (Range(started) \cap {"eval", "predict"} # {}
            => IF args.do_train
               THEN params = "trained" /\ ckpt = "this_run"
               ELSE params = "loaded" /\ ckpt = "previous")
    /\ (~args.do_train /\ ckpt = "absent"
            => /\ started = <<>>
               /\ fsWrites = {}
               /\ pc \in {"start", "pretrained", "stage_train", "failed"})

C3_Witness ==
    /\ pc = "done"
    /\ started = <<"train", "eval", "predict">>
    /\ ckpt = "this_run"

\* C4 as stated: a finished train stage has made num_train_epochs passes when
\* that number is at most 3, and never more than 3.
C4_EpochCount ==
    params = "trained" =>
        /\ epoch <= NumEpochs
        /\ (args.num_train_epochs.val <= NumEpochs
                => epoch = args.num_train_epochs.val)

\* C5 as stated: a partition the reader does not support ends the run with a
\* ValueError naming it, before any training step, eval batch, checkpoint
\* write or opening of test_results.tsv.
C5_PartitionFailFast ==
    /\ ~(pc = "done" /\ args.problem = "xnli" /\ args.do_predict)
    /\ (pc = "failed" /\ error = Raise("ValueError", partition)
            => /\ fsWrites = {}
               /\ applied = <<>> /\ grads = {}
               /\ total_samples = 0)

\* C6 as stated: a max_seq_length above max_position_embeddings ends the run
\* with a ValueError before anything is loaded or any stage begins; one at
\* or below it never fails the check.
C6_SeqLengthCheck ==
    LET tooLong == args.max_seq_length.val > config.max_position_embeddings
        failedAtCheck == pc = "failed" /\ params = "none"
    IN  /\ (tooLong => /\ pc \in {"start", "failed"}
                       /\ (pc = "failed"
                            => error = Raise("ValueError", "max_seq_length"))
                       /\ params = "none" /\ started = <<>>
                       /\ partition = "none" /\ fsWrites = {})
        /\ (~tooLong => ~failedAtCheck)

\* The rows a reader skips as the header: row 0, but none for cola's train
\* and dev files.
C7_HeaderRows ==
    IF args.problem = "cola" /\ partition # "test" THEN 0 ELSE 1

C7_Declared(label) == label \in Range(Labels(args.problem))

C7_ValidLabels ==
    \A k \in 1..Len(yielded) :
        yielded[k].label_id \in 0..(Len(Labels(args.problem)) - 1)

\* The label of row i after the remap, as the claim has it: for xnli.
C7_StatedLabel(i) ==
    IF args.problem = "xnli" /\ rows[i + 1].label = "contradictory"
    THEN "contradiction"
    ELSE rows[i + 1].label

C7_StatedBadRows ==
    {i \in C7_HeaderRows..(Len(rows) - 1) : ~C7_Declared(C7_StatedLabel(i))}

\* C7 as stated, for the partitions whose rows carry a label: every yielded
\* label is a valid index; a row after the header whose label is not declared
\* is never yielded, the reader never reads past the first such row, yields
\* no later row, and ends there by failing.
C7_Original ==
    partition \in {"train", "dev"} =>
        /\ C7_ValidLabels
        /\ \A k \in 1..Len(yielded) : yielded[k].row \notin C7_StatedBadRows
        /\ (C7_StatedBadRows # {}
                => /\ pos <= Min(C7_StatedBadRows)
                   /\ \A k \in 1..Len(yielded) :
                        yielded[k].row < Min(C7_StatedBadRows)
                   /\ (rstatus # "live"
                        => rstatus = "raised" /\ error.type = "KeyError"))

\* The rows a reader looks the label of up: those after the header and, for
\* xnli's dev partition, in the reader's language.
C7_Selected(i) ==
    /\ i >= C7_HeaderRows
    /\ (args.problem = "xnli" /\ partition = "dev" => rows[i + 1].first = Lang)

\* The label the reader looks up for row i: xnli remaps in its train branch.
C7_Label(i) ==
    IF args.problem = "xnli" /\ partition = "train"
            /\ rows[i + 1].label = "contradictory"
    THEN "contradiction"
    ELSE rows[i + 1].label

C7_BadRows ==
    {i \in 0..(Len(rows) - 1) : C7_Selected(i) /\ ~C7_Declared(C7_Label(i))}

\* C7 as amended: for the train and dev partitions, the examples yielded are
\* the selected rows before the reader's position, in order, each with the
\* index of its (remapped) label in the declared labels; the reader never
\* passes the first selected row whose label is not declared: it fails there
\* with KeyError, and it ends without failing only when there is no such row.
C7_ReaderLabels ==
    partition \in {"train", "dev"} =>
        LET limit == IF C7_BadRows = {} THEN Len(rows) ELSE Min(C7_BadRows)
        IN  /\ C7_ValidLabels
            /\ \A k \in 1..Len(yielded) :
                    /\ C7_Selected(yielded[k].row)
                    /\ yielded[k].row < pos
                    /\ Labels(args.problem)[yielded[k].label_id + 1]
                            = C7_Label(yielded[k].row)
                    /\ (k > 1 => yielded[k - 1].row < yielded[k].row)
            /\ Len(yielded)
                    = Cardinality({i \in 0..(pos - 1) : i < Len(rows) /\ C7_Selected(i)})
            /\ pos <= limit
            /\ (rstatus = "raised"
                    => /\ C7_BadRows # {}
                       /\ pos = limit
                       /\ error = Raise("KeyError", C7_Label(limit)))
            /\ (rstatus = "stopped" => C7_BadRows = {} /\ pos = Len(rows))

\* The reader failed at a row after yielding an earlier one, with a later
\* row left unread.
C7_Witness ==
    /\ partition \in {"train", "dev"}
    /\ rstatus = "raised" /\ error.type = "KeyError"
    /\ Len(yielded) >= 1
    /\ pos + 1 < Len(rows)

\* C8: on the test partition of mnli, mrpc and cola every example yielded has
\* label index 0, the first declared label, whatever the rows hold; the
\* reader never fails on a row and yields every row after the header.
C8_TestPlaceholder ==
    args.problem \in {"mnli", "mrpc", "cola"} /\ partition = "test" =>
        /\ \A k \in 1..Len(yielded) : yielded[k].label_id = 0
        /\ rstatus # "raised"
        /\ (rstatus = "stopped"
                => [k \in 1..Len(yielded) |-> yielded[k].row]
                        = [k \in 1..(IF rows = <<>> THEN 0 ELSE Len(rows) - 1) |-> k])

\* A test row whose label column holds a declared label other than the first
\* was yielded.
C8_Witness ==
    /\ args.problem = "mnli" /\ partition = "test"
    /\ \E k \in 1..Len(yielded) : rows[yielded[k].row + 1].label = "neutral"

\* C9: after a predict stage that completes, test_results.tsv holds one line
\* per row of the test file after the header, in the file's order, each with
\* num_classes values, and nothing else.
C9_TestResults ==
    pc = "done" /\ args.do_predict =>
        /\ test_results.exists
        /\ test_results.lines
            = [k \in 1..(IF rows = <<>> THEN 0 ELSE Len(rows) - 1) |->
                    [row |-> k, ncols |-> Len(Labels(args.problem))]]

\* Three examples were written in batches of two: a full batch, then a
\* shorter last one.
C9_Witness ==
    /\ pc = "done" /\ args.do_predict
    /\ args.batch_size = IntArg(2)
    /\ Len(test_results.lines) = 3

====
